---- MODULE Spec2Model ----
(***************************************************************************)
(* Model of src/html/symbols/function.rs: FunctionCtx::new and the helpers *)
(* it calls (render_css_for_fn, render_function_summary,                   *)
(* render_single_function, render_function_return_type).                   *)
(*                                                                         *)
(* A document is a sequence of overload groups; the caller hands each      *)
(* group to FunctionCtx::new in turn.  The loop of FunctionCtx::new is     *)
(* modelled one iteration per step.  Rust indices are 0-based, TLA+        *)
(* sequences 1-based: doc_nodes[i] of the source is doc_nodes[i + 1] here. *)
(* Option<T> is a sequence of length 0 (None) or 1 (Some).                 *)
(*                                                                         *)
(* pushed, origins and type_renders are history variables: pushed lists    *)
(* the input positions whose iteration pushed an entry in the running      *)
(* call, origins keeps that list for every returned FunctionCtx, and       *)
(* type_renders records the scope of each type-rendering call.             *)
(***************************************************************************)
EXTENDS Integers, Sequences, FiniteSets, TLC

VARIABLES document, ctx, g, pc, i, overloads_ctx, functions_content,
          pushed, result, origins, type_renders

vars == <<document, ctx, g, pc, i, overloads_ctx, functions_content,
          pushed, result, origins, type_renders>>

(* ------------------------------ bounds -------------------------------- *)

MaxGroup == 3

MaxParams == 2

MaxTags == 2

MaxDocGroups == 2

(* ------------------------------ Option -------------------------------- *)

None == <<>>

Some(v) == <<v>>

IsSome(o) == o # <<>>

Unwrap(o) == o[1]

OptOr(a, b) == IF IsSome(a) THEN a ELSE b

SeqsUpTo(S, n) == UNION {[1..k -> S] : k \in 0..n}

Indices(s) == 1..Len(s)

(* --------------------- collaborators (outside src) -------------------- *)

name_to_id(kind, name) == kind \o "_" \o name

render_markdown_summary(doc) == "<span class=\"markdown_summary\">" \o doc \o "</span>"

jsdoc_body_to_html(js_doc, summary) ==
  IF IsSome(js_doc.doc)
    THEN Some((IF summary THEN "<div class=\"markdown_summary\">"
                          ELSE "<div class=\"markdown\">")
              \o Unwrap(js_doc.doc) \o "</div>")
    ELSE None

with_current_type_params(render_ctx, current_type_params) ==
  [render_ctx EXCEPT !.current_type_params = current_type_params]

render_type_def(render_ctx, ts_type) ==
  IF ts_type \in render_ctx.current_type_params
    THEN "<span>" \o ts_type \o "</span>"
    ELSE "<a href=\"#" \o ts_type \o "\">" \o ts_type \o "</a>"

render_type_def_colon(render_ctx, ts_type) ==
  "<span>: " \o render_type_def(render_ctx, ts_type) \o "</span>"

RECURSIVE JoinNames(_)
JoinNames(names) ==
  IF names = <<>> THEN ""
  ELSE IF Len(names) = 1 THEN names[1]
  ELSE names[1] \o ", " \o JoinNames(Tail(names))

type_params_summary(render_ctx, type_params) ==
  IF type_params = <<>> THEN ""
  ELSE "<span>&lt;" \o JoinNames(type_params) \o "&gt;</span>"

RECURSIVE param_name(_, _)
param_name(param, idx) ==
  CASE param.pattern.kind \in {"Array", "Object"} ->
         <<"unnamed " \o ToString(idx), "(unnamed " \o ToString(idx) \o ")">>
    [] param.pattern.kind = "Assign" -> param_name(param.pattern.left, idx)
    [] param.pattern.kind = "Identifier" ->
         <<param.pattern.name, param.pattern.name>>

ParamTsType(param) ==
  IF param.pattern.kind = "Assign" THEN param.pattern.left.ts_type
  ELSE param.ts_type

RECURSIVE render_params_from(_, _, _)
render_params_from(render_ctx, params, idx) ==
  IF idx >= Len(params) THEN ""
  ELSE LET param == params[idx + 1]
           one == param_name(param, idx)[1]
                  \o (IF IsSome(ParamTsType(param))
                        THEN render_type_def_colon(render_ctx, Unwrap(ParamTsType(param)))
                        ELSE "")
       IN one \o (IF idx + 1 < Len(params) THEN ", " ELSE "")
              \o render_params_from(render_ctx, params, idx + 1)

render_params(render_ctx, params) == render_params_from(render_ctx, params, 0)

DocEntryCtx_new(id, name, content, tags, js_doc) ==
  [id |-> id, name |-> name, content |-> content, tags |-> tags, js_doc |-> js_doc]

jsdoc_examples(js_doc) ==
  LET examples == SelectSeq(js_doc.tags, LAMBDA t : t.kind = "Example")
  IN IF examples = <<>> THEN None
     ELSE Some([title |-> "Examples",
                content |-> [k \in Indices(examples) |-> examples[k].doc]])

render_type_params(type_params) ==
  IF type_params = <<>> THEN None
  ELSE Some([title |-> "Type Parameters", content |-> type_params])

(* ------------------------- function.rs: helpers ----------------------- *)

render_css_for_fn(overload_id, deprecated) ==
  LET bg_color == IF deprecated THEN "#D256460C"
                  ELSE "var(--ddoc-selection-selected-bg)"
      border_color == IF deprecated THEN "#DC2626"
                      ELSE "var(--ddoc-selection-selected-border-color)"
  IN "\n#" \o overload_id \o " {\n  display: none;\n}\n#"
     \o overload_id \o ":checked ~ *:last-child > :not(#" \o overload_id
     \o "_div) {\n  display: none;\n}\n#"
     \o overload_id \o ":checked ~ div:first-of-type > label[for='" \o overload_id
     \o "'] {\n  background-color: " \o bg_color
     \o ";\n  border: solid var(--ddoc-selection-border-width) " \o border_color
     \o ";\n  cursor: unset;\n  padding: var(--ddoc-selection-padding);\n}\n"

(* variant: the guard tests the position past the second declaration *)
skip_implementation_past_second(function_def, idx) ==
  function_def.has_body /\ idx > 1

skip_implementation(function_def, idx) == function_def.has_body /\ idx # 0

deprecated_of(doc_node) ==
  LET found == SelectSeq(doc_node.js_doc.tags, LAMBDA t : t.kind = "Deprecated")
  IN IF found = <<>> THEN None
     ELSE Some(IF IsSome(found[1].doc)
                 THEN render_markdown_summary(Unwrap(found[1].doc))
                 ELSE "")

(* variant: 1-based ordinal in the overload label *)
overload_label_one_based(name, idx) == name \o "_" \o ToString(idx + 1)

overload_label(name, idx) == name \o "_" \o ToString(idx)

overload_id_of(doc_node, idx) ==
  name_to_id("function", overload_label(doc_node.name, idx))

function_id_of(doc_node) == name_to_id("function", doc_node.name)

summary_doc_of(function_def, idx, js_doc) ==
  IF ~(function_def.has_body /\ idx = 0)
    THEN jsdoc_body_to_html(js_doc, TRUE)
    ELSE None

(* variant: the checked attribute is set at the second position as well *)
html_attrs_of_first_two(idx) == IF idx <= 1 THEN "checked" ELSE ""

html_attrs_of(idx) == IF idx = 0 THEN "checked" ELSE ""

render_function_summary(function_def, render_ctx) ==
  LET return_type ==
        IF IsSome(function_def.return_type)
          THEN render_type_def_colon(render_ctx, Unwrap(function_def.return_type))
          ELSE ""
  IN type_params_summary(render_ctx, function_def.type_params)
     \o "(" \o render_params(render_ctx, function_def.params) \o ")"
     \o return_type

current_type_params_of(function_def) ==
  {function_def.type_params[k] : k \in Indices(function_def.type_params)}

param_docs_get(js_doc, name) ==
  LET hits == SelectSeq(js_doc.tags,
                        LAMBDA t : t.kind = "Param" /\ t.name = name)
  IN IF hits = <<>> THEN None
     ELSE LET t == hits[Len(hits)]
          IN Some([doc |-> t.doc, optional |-> t.optional, default |-> t.default])

doc_default(param_doc) ==
  IF IsSome(param_doc) THEN Unwrap(param_doc).default ELSE None

doc_optional(param_doc) ==
  IF IsSome(param_doc) THEN Unwrap(param_doc).optional ELSE FALSE

resolve_default(param, param_doc) ==
  IF param.pattern.kind = "Assign"
    THEN OptOr(doc_default(param_doc), Some(param.pattern.right))
    ELSE doc_default(param_doc)

default_suffix(default) ==
  "<span><span class=\"font-normal\"> = </span>" \o default \o "</span>"

param_ts_type(render_ctx, param, default) ==
  LET ts_type == ParamTsType(param)
      rendered == IF IsSome(ts_type)
                    THEN render_type_def_colon(render_ctx, Unwrap(ts_type))
                    ELSE ""
  IN IF IsSome(default) THEN rendered \o default_suffix(Unwrap(default))
     ELSE rendered

pattern_optional(param) ==
  /\ param.pattern.kind \in {"Array", "Identifier", "Object"}
  /\ param.pattern.optional

(* variant: the doc tag's optional flag is not consulted *)
param_tags_without_doc_flag(param, default, optional) ==
  IF pattern_optional(param) \/ IsSome(default)
    THEN {"Optional"}
    ELSE {}

param_tags(param, default, optional) ==
  IF pattern_optional(param) \/ IsSome(default) \/ optional
    THEN {"Optional"}
    ELSE {}

render_param(render_ctx, doc_node, overload_id, param, idx) ==
  LET names == param_name(param, idx)
      id == name_to_id(overload_id, "parameters_" \o names[2])
      param_doc == param_docs_get(doc_node.js_doc, names[1])
      default == resolve_default(param, param_doc)
  IN DocEntryCtx_new(id, names[1],
                     param_ts_type(render_ctx, param, default),
                     param_tags(param, default, doc_optional(param_doc)),
                     IF IsSome(param_doc) THEN Unwrap(param_doc).doc ELSE None)

render_function_return_type(render_ctx, def, doc_node, overload_id) ==
  IF ~IsSome(def.return_type) THEN None
  ELSE LET id == name_to_id(overload_id, "return")
           returns == SelectSeq(doc_node.js_doc.tags,
                                LAMBDA t : t.kind = "Return" /\ IsSome(t.doc))
           return_type_doc == IF returns = <<>> THEN None ELSE returns[1].doc
       IN Some(DocEntryCtx_new(id, "",
                               render_type_def(render_ctx, Unwrap(def.return_type)),
                               {}, return_type_doc))

(* variant: a Return Type section without entry is left out *)
build_sections_without_empty_return(examples, type_params, params, return_entry) ==
  (IF IsSome(examples) THEN <<Unwrap(examples)>> ELSE <<>>)
  \o (IF IsSome(type_params) THEN <<Unwrap(type_params)>> ELSE <<>>)
  \o (IF params # <<>>
        THEN <<[title |-> "Parameters", content |-> params]>>
        ELSE <<>>)
  \o (IF IsSome(return_entry)
        THEN <<[title |-> "Return Type", content |-> <<Unwrap(return_entry)>>]>>
        ELSE <<>>)

build_sections(examples, type_params, params, return_entry) ==
  (IF IsSome(examples) THEN <<Unwrap(examples)>> ELSE <<>>)
  \o (IF IsSome(type_params) THEN <<Unwrap(type_params)>> ELSE <<>>)
  \o (IF params # <<>>
        THEN <<[title |-> "Parameters", content |-> params]>>
        ELSE <<>>)
  \o <<[title |-> "Return Type",
        content |-> IF IsSome(return_entry) THEN <<Unwrap(return_entry)>>
                    ELSE <<>>]>>

render_single_function(render_ctx, doc_node, overload_id) ==
  LET function_def == Unwrap(doc_node.function_def)
      scoped == with_current_type_params(render_ctx,
                                         current_type_params_of(function_def))
      params == [k \in Indices(function_def.params) |->
                   render_param(scoped, doc_node, overload_id,
                                function_def.params[k], k - 1)]
  IN [id |-> overload_id \o "_div",
      sections |-> build_sections(
                     jsdoc_examples(doc_node.js_doc),
                     render_type_params(function_def.type_params),
                     params,
                     render_function_return_type(scoped, function_def,
                                                 doc_node, overload_id)),
      docs |-> jsdoc_body_to_html(doc_node.js_doc, FALSE)]

(* The scope each type expression of one declaration is rendered with:     *)
(* one record per call of render_type_def / render_type_def_colon.         *)

summary_scope(render_ctx, function_def) == render_ctx.current_type_params

body_scope(render_ctx, function_def) ==
  with_current_type_params(render_ctx,
                           current_type_params_of(function_def)).current_type_params

type_render_calls(render_ctx, function_def, grp, idx) ==
  LET typed == {k \in Indices(function_def.params) :
                  IsSome(ParamTsType(function_def.params[k]))}
      ret == IsSome(function_def.return_type)
  IN {[g |-> grp, i |-> idx, site |-> "summary_param", param |-> k - 1,
       scope |-> summary_scope(render_ctx, function_def)] : k \in typed}
     \cup {[g |-> grp, i |-> idx, site |-> "body_param", param |-> k - 1,
            scope |-> body_scope(render_ctx, function_def)] : k \in typed}
     \cup (IF ret
             THEN {[g |-> grp, i |-> idx, site |-> "summary_return", param |-> 0,
                    scope |-> summary_scope(render_ctx, function_def)],
                   [g |-> grp, i |-> idx, site |-> "body_return", param |-> 0,
                    scope |-> body_scope(render_ctx, function_def)]}
             ELSE {})

new_overload(render_ctx, doc_node, idx) ==
  LET function_def == Unwrap(doc_node.function_def)
      deprecated == deprecated_of(doc_node)
      overload_id == overload_id_of(doc_node, idx)
  IN [function_id |-> function_id_of(doc_node),
      overload_id |-> overload_id,
      additional_css |-> render_css_for_fn(overload_id, IsSome(deprecated)),
      html_attrs |-> html_attrs_of(idx),
      name |-> doc_node.name,
      deprecated |-> deprecated,
      summary |-> render_function_summary(function_def, render_ctx),
      summary_doc |-> summary_doc_of(function_def, idx, doc_node.js_doc)]

(* ------------------------------- inputs ------------------------------- *)

Ident(name, optional, ts_type) ==
  [pattern |-> [kind |-> "Identifier", name |-> name, optional |-> optional],
   ts_type |-> ts_type]

ObjectPat(optional) ==
  [pattern |-> [kind |-> "Object", optional |-> optional], ts_type |-> None]

ArrayPat(optional) ==
  [pattern |-> [kind |-> "Array", optional |-> optional], ts_type |-> None]

Assign(left, right) ==
  [pattern |-> [kind |-> "Assign", left |-> left, right |-> right],
   ts_type |-> None]

ParamTag(name, doc, optional, default) ==
  [kind |-> "Param", name |-> name, doc |-> doc, optional |-> optional,
   default |-> default]

OtherTag(kind, doc) == [kind |-> kind, doc |-> doc]

ParamSet ==
  {Ident("x", FALSE, Some("T")), Ident("y", TRUE, None),
   ObjectPat(FALSE), ArrayPat(TRUE),
   Assign(Ident("x", FALSE, Some("T")), "1"),
   Assign(ObjectPat(FALSE), "{}")}

ParamTagSet ==
  {ParamTag("x", Some("the x"), FALSE, None),
   ParamTag("x", None, TRUE, None),
   ParamTag("x", None, FALSE, Some("true"))}

OtherTagSet ==
  {OtherTag("Example", Some("f()")), OtherTag("Return", Some("the result")),
   OtherTag("Deprecated", None), ParamTag("x", Some("the x"), FALSE, None)}

Names == {"f", "f_0", "g"}

FunctionDef(has_body, type_params, return_type, params) ==
  [has_body |-> has_body, type_params |-> type_params,
   return_type |-> return_type, params |-> params]

DocNode(name, function_def, doc, tags) ==
  [name |-> name, function_def |-> function_def,
   js_doc |-> [doc |-> doc, tags |-> tags]]

Group(doc_nodes) == [doc_nodes |-> doc_nodes]

(* overload groups of one name: signatures, implementations, and nodes    *)
(* that lack their function-specific fields                                *)
GroupDecls ==
  {DocNode("f", None, Some("text"), <<>>)}
  \cup {DocNode("f", Some(FunctionDef(b, tp, Some("T"), <<Ident("x", FALSE, Some("T"))>>)),
                Some("text"), tg) :
          b \in BOOLEAN, tp \in {<<>>, <<"T">>},
          tg \in {<<>>, <<OtherTag("Deprecated", Some("old"))>>}}

GroupDocuments ==
  {<<Group(ds)>> : ds \in SeqsUpTo(GroupDecls, MaxGroup)}

(* one signature, varying its parameters and its Param doc tags            *)
ParamDocuments ==
  {<<Group(<<DocNode("f", Some(FunctionDef(FALSE, <<"T">>, Some("T"), ps)),
                     Some("text"), tg)>>)>> :
     ps \in SeqsUpTo(ParamSet, MaxParams), tg \in SeqsUpTo(ParamTagSet, MaxTags)}

(* one declaration, varying what the sections of its body depend on        *)
SectionDocuments ==
  {<<Group(<<DocNode("f", Some(FunctionDef(b, tp, rt, ps)), d, tg)>>)>> :
     b \in BOOLEAN, tp \in {<<>>, <<"T">>}, rt \in {None, Some("T")},
     ps \in {<<>>, <<Ident("x", FALSE, Some("T"))>>},
     d \in {None, Some("text")}, tg \in SeqsUpTo(OtherTagSet, MaxTags)}

(* several functions of different names in one document                    *)
NamedGroups(name) ==
  LET sig == DocNode(name, Some(FunctionDef(FALSE, <<>>, None, <<>>)), None, <<>>)
      impl == DocNode(name, Some(FunctionDef(TRUE, <<>>, None, <<>>)), None, <<>>)
  IN {Group(<<sig>>), Group(<<sig, sig>>), Group(<<sig, impl>>)}

NameDocuments ==
  UNION {
    {d \in [1..n -> UNION {NamedGroups(nm) : nm \in Names}] :
       \A a, b \in 1..n : a # b => d[a].doc_nodes[1].name # d[b].doc_nodes[1].name}
    : n \in 1..MaxDocGroups}

Documents == GroupDocuments \cup ParamDocuments \cup SectionDocuments \cup NameDocuments

RenderContexts == {[current_type_params |-> {}], [current_type_params |-> {"K"}]}

(* ------------------------------ behaviour ----------------------------- *)

doc_nodes == document[g].doc_nodes

Init ==
  /\ document \in Documents
  /\ ctx \in RenderContexts
  /\ g = 1
  /\ pc = "idle"
  /\ i = 0
  /\ overloads_ctx = <<>>
  /\ functions_content = <<>>
  /\ pushed = <<>>
  /\ result = <<>>
  /\ origins = <<>>
  /\ type_renders = {}

(* the caller invokes FunctionCtx::new on the next group of the document   *)
Call ==
  /\ pc = "idle"
  /\ g <= Len(document)
  /\ pc' = "loop"
  /\ i' = 0
  /\ overloads_ctx' = <<>>
  /\ functions_content' = <<>>
  /\ pushed' = <<>>
  /\ UNCHANGED <<document, ctx, g, result, origins, type_renders>>

(* doc_node.function_def.as_ref().unwrap() on a node without function_def  *)
(* variant: a node without function_def is passed over instead of aborting *)
LoopPanicContinues ==
  /\ pc = "loop"
  /\ i < Len(doc_nodes)
  /\ ~IsSome(doc_nodes[i + 1].function_def)
  /\ i' = i + 1
  /\ UNCHANGED <<document, ctx, g, pc, overloads_ctx, functions_content,
                 pushed, result, origins, type_renders>>

LoopPanic ==
  /\ pc = "loop"
  /\ i < Len(doc_nodes)
  /\ ~IsSome(doc_nodes[i + 1].function_def)
  /\ pc' = "panicked"
  /\ overloads_ctx' = <<>>
  /\ functions_content' = <<>>
  /\ UNCHANGED <<document, ctx, g, i, pushed, result, origins, type_renders>>

LoopSkip ==
  /\ pc = "loop"
  /\ i < Len(doc_nodes)
  /\ IsSome(doc_nodes[i + 1].function_def)
  /\ skip_implementation(Unwrap(doc_nodes[i + 1].function_def), i)
  /\ i' = i + 1
  /\ UNCHANGED <<document, ctx, g, pc, overloads_ctx, functions_content,
                 pushed, result, origins, type_renders>>

LoopEmit ==
  /\ pc = "loop"
  /\ i < Len(doc_nodes)
  /\ IsSome(doc_nodes[i + 1].function_def)
  /\ ~skip_implementation(Unwrap(doc_nodes[i + 1].function_def), i)
  /\ LET doc_node == doc_nodes[i + 1]
         overload == new_overload(ctx, doc_node, i)
     IN /\ overloads_ctx' = Append(overloads_ctx, overload)
        /\ functions_content' =
             Append(functions_content,
                    render_single_function(ctx, doc_node, overload.overload_id))
        /\ type_renders' = type_renders \cup
             type_render_calls(ctx, Unwrap(doc_node.function_def), g, i)
  /\ pushed' = Append(pushed, i)
  /\ i' = i + 1
  /\ UNCHANGED <<document, ctx, g, pc, result, origins>>

Return ==
  /\ pc = "loop"
  /\ i = Len(doc_nodes)
  /\ result' = Append(result, [overloads_ctx |-> overloads_ctx,
                               functions |-> functions_content])
  /\ origins' = Append(origins, pushed)
  /\ g' = g + 1
  /\ pc' = "idle"
  /\ UNCHANGED <<document, ctx, i, overloads_ctx, functions_content,
                 pushed, type_renders>>

Next == Call \/ LoopPanic \/ LoopSkip \/ LoopEmit \/ Return

Spec == Init /\ [][Next]_vars

(* ------------------------------ properties ---------------------------- *)

Completed == Indices(result)

NodesOf(k) == document[k].doc_nodes

NodeOf(k, j) == NodesOf(k)[origins[k][j] + 1]

DefOf(k, j) == Unwrap(NodeOf(k, j).function_def)

OwnScope(function_def) ==
  [current_type_params |->
     {function_def.type_params[q] : q \in Indices(function_def.type_params)}]

ParamEntries(fn) ==
  LET found == SelectSeq(fn.sections, LAMBDA sec : sec.title = "Parameters")
  IN IF found = <<>> THEN <<>> ELSE found[1].content

TypeText(function_def, param) ==
  IF IsSome(ParamTsType(param))
    THEN render_type_def_colon(OwnScope(function_def), Unwrap(ParamTsType(param)))
    ELSE ""

MatchedTag(node, param, pos) ==
  param_docs_get(node.js_doc, param_name(param, pos)[1])

HasDocDefault(matched) == IsSome(matched) /\ IsSome(Unwrap(matched).default)

(* C1: every parameter whose pattern is Assign{left, right} shows the      *)
(* literal `right` as its default text and carries Optional, whatever      *)
(* default the matched doc Param tag declares.                             *)
C1_LiteralDefaultWins ==
  \A k \in Completed : \A j \in Indices(origins[k]) :
    \A q \in Indices(DefOf(k, j).params) :
      LET param == DefOf(k, j).params[q]
          entry == ParamEntries(result[k].functions[j])[q]
      IN param.pattern.kind = "Assign" =>
           /\ entry.content = TypeText(DefOf(k, j), param)
                              \o default_suffix(param.pattern.right)
           /\ "Optional" \in entry.tags

(* C2 as stated: a declaration that carries a body is in the output only   *)
(* if it is the sole declaration of its group.                             *)
C2_BodiedOnlyIfSole ==
  \A k \in Completed : \A j \in Indices(origins[k]) :
    DefOf(k, j).has_body => Len(NodesOf(k)) = 1

(* C2 as amended: a declaration that carries a body is in the output only  *)
(* if it is the declaration at index 0 of its group; at every index i > 0  *)
(* no bodied declaration is emitted.                                       *)
C2_BodiedOnlyAtIndexZero ==
  \A k \in Completed :
    /\ \A j \in Indices(origins[k]) :
         DefOf(k, j).has_body => origins[k][j] = 0
    /\ \A q \in Indices(NodesOf(k)) :
         (q > 1 /\ Unwrap(NodesOf(k)[q].function_def).has_body) =>
           \A j \in Indices(result[k].overloads_ctx) :
             result[k].overloads_ctx[j].overload_id
               # "function_" \o NodesOf(k)[q].name \o "_" \o ToString(q - 1)

C2_Witness ==
  \E k \in Completed :
    /\ Len(NodesOf(k)) >= 2
    /\ \E j \in Indices(origins[k]) : DefOf(k, j).has_body
    /\ \E q \in Indices(NodesOf(k)) :
         q > 1 /\ Unwrap(NodesOf(k)[q].function_def).has_body

ExpectedEmitted(nodes) ==
  SelectSeq([q \in Indices(nodes) |-> q - 1],
            LAMBDA idx : idx = 0 \/ ~Unwrap(nodes[idx + 1].function_def).has_body)

(* C3: FunctionCtx::new emits, in input order, exactly the declaration at  *)
(* index 0 plus every declaration at index i > 0 without body;             *)
(* overloads_ctx and functions have the same length, their k-th entries    *)
(* come from the same input declaration, and the overload id is built      *)
(* from the input position.                                                *)
C3_EmittedInInputOrder ==
  /\ Len(overloads_ctx) = Len(functions_content)
  /\ \A k \in Completed :
       /\ origins[k] = ExpectedEmitted(NodesOf(k))
       /\ Len(result[k].overloads_ctx) = Len(origins[k])
       /\ Len(result[k].functions) = Len(origins[k])
       /\ \A j \in Indices(origins[k]) :
            LET id == "function_" \o NodeOf(k, j).name \o "_"
                      \o ToString(origins[k][j])
            IN /\ result[k].overloads_ctx[j].overload_id = id
               /\ result[k].overloads_ctx[j].name = NodeOf(k, j).name
               /\ result[k].functions[j].id = id \o "_div"

C3_Witness ==
  \E k \in Completed :
    /\ Len(NodesOf(k)) = 3
    /\ Unwrap(NodesOf(k)[2].function_def).has_body
    /\ ~Unwrap(NodesOf(k)[1].function_def).has_body
    /\ ~Unwrap(NodesOf(k)[3].function_def).has_body
    /\ Len(result[k].overloads_ctx) = 2
    /\ origins[k] = <<0, 2>>

(* C4: within one document, two emitted declarations that differ in        *)
(* (name, index) have different overload ids, and no overload id equals    *)
(* the function id of any function.                                        *)
C4_IdsCollisionFree ==
  \A k1, k2 \in Completed :
    \A j1 \in Indices(result[k1].overloads_ctx) :
      \A j2 \in Indices(result[k2].overloads_ctx) :
        /\ <<k1, j1>> # <<k2, j2>> =>
             result[k1].overloads_ctx[j1].overload_id
               # result[k2].overloads_ctx[j2].overload_id
        /\ result[k1].overloads_ctx[j1].overload_id
             # result[k2].overloads_ctx[j2].function_id

(* C5: every type expression rendered for one emitted overload, in the     *)
(* signature summary and in the body, is rendered with a scope whose       *)
(* current type-parameter set is exactly that overload's own declared      *)
(* type-parameter names.                                                   *)
C5_ScopeIsOwnTypeParams ==
  \A r \in type_renders :
    r.scope = OwnScope(Unwrap(document[r.g].doc_nodes[r.i + 1].function_def))
                .current_type_params

(* C6: summary_doc is omitted if and only if the declaration is bodied,    *)
(* at index 0, and its group has exactly one declaration; otherwise it is  *)
(* what the summary markdown collaborator returns for the doc comment.     *)
C6_SummaryDocOmittedIffSoleBodied ==
  \A k \in Completed : \A j \in Indices(origins[k]) :
    result[k].overloads_ctx[j].summary_doc =
      IF DefOf(k, j).has_body /\ origins[k][j] = 0 /\ Len(NodesOf(k)) = 1
        THEN None
        ELSE jsdoc_body_to_html(NodeOf(k, j).js_doc, TRUE)

(* C7: for every non-empty group exactly one entry of overloads_ctx has    *)
(* html_attrs = "checked"; it is the first entry and it comes from the     *)
(* declaration at input index 0; every other entry has empty html_attrs.   *)
C7_OnlyFirstChecked ==
  \A k \in Completed :
    NodesOf(k) # <<>> =>
      /\ result[k].overloads_ctx # <<>>
      /\ origins[k][1] = 0
      /\ \A j \in Indices(result[k].overloads_ctx) :
           result[k].overloads_ctx[j].html_attrs
             = IF j = 1 THEN "checked" ELSE ""

C7_Witness ==
  \E k \in Completed :
    /\ Len(result[k].overloads_ctx) >= 2
    /\ result[k].overloads_ctx[1].html_attrs = "checked"
    /\ result[k].overloads_ctx[2].html_attrs = ""

(* C8: a parameter entry carries Optional if and only if the pattern is    *)
(* Identifier/Array/Object with its optional flag set, or a default was    *)
(* resolved (Assign literal or matched doc tag), or the matched doc tag    *)
(* marks it optional; otherwise it has no tag.  Without literal default,   *)
(* a matched doc tag's default d is the default text shown.                *)
C8_OptionalTag ==
  \A k \in Completed : \A j \in Indices(origins[k]) :
    \A q \in Indices(DefOf(k, j).params) :
      LET param == DefOf(k, j).params[q]
          entry == ParamEntries(result[k].functions[j])[q]
          matched == MatchedTag(NodeOf(k, j), param, q - 1)
          literal == param.pattern.kind = "Assign"
          own_flag == /\ param.pattern.kind \in {"Identifier", "Array", "Object"}
                      /\ param.pattern.optional
          doc_flag == IsSome(matched) /\ Unwrap(matched).optional
      IN /\ entry.tags =
              IF own_flag \/ literal \/ HasDocDefault(matched) \/ doc_flag
                THEN {"Optional"} ELSE {}
         /\ (~literal /\ HasDocDefault(matched)) =>
              /\ entry.content = TypeText(DefOf(k, j), param)
                                 \o default_suffix(Unwrap(Unwrap(matched).default))
              /\ "Optional" \in entry.tags

C8_Witness ==
  \E k \in Completed : \E j \in Indices(origins[k]) :
    \E q \in Indices(DefOf(k, j).params) :
      LET param == DefOf(k, j).params[q]
          entry == ParamEntries(result[k].functions[j])[q]
          matched == MatchedTag(NodeOf(k, j), param, q - 1)
      IN /\ param.pattern.kind = "Identifier"
         /\ ~param.pattern.optional
         /\ HasDocDefault(matched)
         /\ Unwrap(Unwrap(matched).default) = "true"
         /\ entry.tags = {"Optional"}

Titles(sections) == [q \in Indices(sections) |-> sections[q].title]

ExpectedTitles(node) ==
  (IF \E q \in Indices(node.js_doc.tags) : node.js_doc.tags[q].kind = "Example"
     THEN <<"Examples">> ELSE <<>>)
  \o (IF Unwrap(node.function_def).type_params # <<>>
        THEN <<"Type Parameters">> ELSE <<>>)
  \o (IF Unwrap(node.function_def).params # <<>>
        THEN <<"Parameters">> ELSE <<>>)
  \o <<"Return Type">>

(* C9: the sections are, in order, Examples (if any), TypeParameters (if   *)
(* any), Parameters (iff the declaration has parameters, one entry per     *)
(* parameter in signature order) and Return Type, always present and last, *)
(* with one entry of empty name when a return type is annotated and no     *)
(* entry otherwise.                                                        *)
C9_SectionOrder ==
  \A k \in Completed : \A j \in Indices(origins[k]) :
    LET sections == result[k].functions[j].sections
        last == sections[Len(sections)]
        params == DefOf(k, j).params
        entries == ParamEntries(result[k].functions[j])
    IN /\ Titles(sections) = ExpectedTitles(NodeOf(k, j))
       /\ Len(entries) = Len(params)
       /\ \A q \in Indices(params) :
            entries[q].name = param_name(params[q], q - 1)[1]
       /\ last.title = "Return Type"
       /\ IF IsSome(DefOf(k, j).return_type)
            THEN Len(last.content) = 1 /\ last.content[1].name = ""
            ELSE last.content = <<>>

C9_Witness ==
  \E k \in Completed : \E j \in Indices(origins[k]) :
    /\ Titles(result[k].functions[j].sections)
         = <<"Examples", "Type Parameters", "Parameters", "Return Type">>
    /\ ~IsSome(DefOf(k, j).return_type)
    /\ result[k].functions[j].sections[4].content = <<>>

(* C10: if any declaration of a group lacks function_def, FunctionCtx::new *)
(* aborts and returns no FunctionCtx for the group, not even for the       *)
(* declarations processed before it; nothing else makes it abort.          *)
C10_AllOrNothing ==
  /\ \A k \in Completed :
       \A q \in Indices(NodesOf(k)) : IsSome(NodesOf(k)[q].function_def)
  /\ pc = "panicked" =>
       /\ Len(result) = g - 1
       /\ ~IsSome(doc_nodes[i + 1].function_def)
       /\ overloads_ctx = <<>> /\ functions_content = <<>>
  /\ (pc = "idle" /\ g > Len(document)) =>
       /\ Len(result) = Len(document)
       /\ \A k \in Indices(document) :
            \A q \in Indices(NodesOf(k)) : IsSome(NodesOf(k)[q].function_def)

C10_Witness ==
  /\ pc = "panicked"
  /\ i > 0
  /\ pushed # <<>>
  /\ result = <<>>

====
